---- MODULE Spec2Model ----
(***************************************************************************)
(* Owner / Pet schema layer of SimpleMicroservices (models/owner.py,       *)
(* models/pet.py): validation of Create and Update payloads, construction  *)
(* of the Read records with their default factories, and the repository    *)
(* operations (create, update, delete) that consume the validated values.  *)
(*                                                                         *)
(* A payload is a function from the keys the client sent to tagged values; *)
(* a key that is not in the DOMAIN was structurally omitted, a key mapped  *)
(* to Null was sent with a null value.                                     *)
(***************************************************************************)
EXTENDS Integers, Sequences, FiniteSets, TLC

VARIABLES owners, pets, life, issued, now, ops, last

vars == <<owners, pets, life, issued, now, ops, last>>

(* Bounds of the model *)
MaxOps == 3

(***************************************************************************)
(* Tagged values: what a payload key or a record field can hold.           *)
(***************************************************************************)
Val(tag, text, list, num) == [t |-> tag, s |-> text, l |-> list, n |-> num]

Null == Val("null", <<>>, <<>>, 0)

Str(text) == Val("str", text, <<>>, 0)

IntVal(k) == Val("int", <<>>, <<>>, k)

List(xs) == Val("list", <<>>, xs, 0)

Uuid(k) == Val("uuid", <<>>, <<>>, k)

Datetime(k) == Val("datetime", <<>>, <<>>, k)

Date(ymd) == Val("date", ymd, <<>>, 0)

Restrict(f, D) == [k \in D |-> f[k]]

(***************************************************************************)
(* Field types.  A field validator maps an input value to                  *)
(* [ok |-> BOOLEAN, v |-> the value the model instance holds].             *)
(***************************************************************************)
Ok(v) == [ok |-> TRUE, v |-> v]

Bad == [ok |-> FALSE, v |-> Null]

\* str: a string is taken as it is, nothing else is coerced to one
StrField(v) == IF v.t = "str" THEN Ok(v) ELSE Bad

\* Optional[T]: None is accepted, anything else goes to T's validator
OptionalStr(v) == IF v.t = "null" THEN Ok(Null) ELSE StrField(v)

\* UUID: a UUID object (JSON text in UUID form is parsed to the same object)
UuidField(v) == IF v.t = "uuid" THEN Ok(v) ELSE Bad

RECURSIVE CountOf(_, _)
CountOf(s, c) ==
    IF s = <<>> THEN 0
    ELSE (IF Head(s) = c THEN 1 ELSE 0) + CountOf(Tail(s), c)

IndexOf(s, c) == CHOOSE i \in 1..Len(s) : s[i] = c /\ \A j \in 1..(i - 1) : s[j] # c

\* a dot-separated run of atoms: non-empty, no leading, trailing or doubled dot
DotAtom(s) ==
    /\ s # <<>>
    /\ s[1] # "."
    /\ s[Len(s)] # "."
    /\ \A i \in 1..(Len(s) - 1) : ~(s[i] = "." /\ s[i + 1] = ".")

LocalPart(s) == SubSeq(s, 1, IndexOf(s, "@") - 1)

DomainPart(s) == SubSeq(s, IndexOf(s, "@") + 1, Len(s))

\* EmailStr syntax: exactly one @, a dot-atom before it, a dotted domain after it
WellFormedEmail(s) ==
    /\ CountOf(s, "@") = 1
    /\ DotAtom(LocalPart(s))
    /\ DotAtom(DomainPart(s))
    /\ CountOf(DomainPart(s), ".") >= 1

Lower(tok) ==
    CASE tok = "EXAMPLE" -> "example"
      [] tok = "COM" -> "com"
      [] OTHER -> tok

\* EmailStr returns the normalised address: the domain is lower-cased
NormalizeEmail(s) ==
    LocalPart(s) \o <<"@">> \o [i \in 1..Len(DomainPart(s)) |-> Lower(DomainPart(s)[i])]

\* (variant) only the @ is looked for
EmailStrOneAt(v) ==
    IF v.t = "str" /\ CountOf(v.s, "@") = 1 /\ LocalPart(v.s) # <<>> /\ DomainPart(v.s) # <<>>
    THEN Ok(Str(NormalizeEmail(v.s)))
    ELSE Bad

EmailStr(v) ==
    IF v.t = "str" /\ WellFormedEmail(v.s) THEN Ok(Str(NormalizeEmail(v.s))) ELSE Bad

OptionalEmailStr(v) == IF v.t = "null" THEN Ok(Null) ELSE EmailStr(v)

Years == {"2019", "2020"}

Months == {"05", "12"}

Days == {"10", "25"}

\* date: a date object, or text in the form YYYY-MM-DD
IsoDate(s) ==
    /\ Len(s) = 5
    /\ s[2] = "-" /\ s[4] = "-"
    /\ s[1] \in Years /\ s[3] \in Months /\ s[5] \in Days

DateField(v) ==
    CASE v.t = "date" -> Ok(v)
      [] v.t = "str" /\ IsoDate(v.s) -> Ok(Date(<<v.s[1], v.s[3], v.s[5]>>))
      [] OTHER -> Bad

OptionalDate(v) == IF v.t = "null" THEN Ok(Null) ELSE DateField(v)

(***************************************************************************)
(* Address (models/address.py is not part of the sources at hand; the      *)
(* shape is the one the data model describes).  Every address considered   *)
(* here carries the id it was issued, so no id is assigned on validation.  *)
(***************************************************************************)
AddressSchema ==
    [street      |-> [type |-> "str",    required |-> TRUE,  default |-> Null],
     city        |-> [type |-> "str",    required |-> TRUE,  default |-> Null],
     state       |-> [type |-> "optstr", required |-> FALSE, default |-> Null],
     postal_code |-> [type |-> "str",    required |-> TRUE,  default |-> Null],
     country     |-> [type |-> "str",    required |-> TRUE,  default |-> Null],
     id          |-> [type |-> "uuid",   required |-> FALSE, default |-> Null]]

Scalar(type, v) ==
    CASE type = "str"      -> StrField(v)
      [] type = "optstr"   -> OptionalStr(v)
      [] type = "email"    -> EmailStr(v)
      [] type = "optemail" -> OptionalEmailStr(v)
      [] type = "uuid"     -> UuidField(v)
      [] type = "optdate"  -> OptionalDate(v)
      [] OTHER             -> Bad

AddressField(a, k) ==
    IF k \in DOMAIN a THEN Scalar(AddressSchema[k].type, a[k])
    ELSE IF AddressSchema[k].required THEN Bad
    ELSE Ok(AddressSchema[k].default)

AddressBase(a) ==
    [ok |-> \A k \in DOMAIN AddressSchema : AddressField(a, k).ok,
     v  |-> [k \in DOMAIN AddressSchema |-> AddressField(a, k).v]]

Reverse(xs) == [i \in 1..Len(xs) |-> xs[Len(xs) + 1 - i]]

\* (variant) the elements are collected without regard to the order supplied
AddressListUnordered(v) ==
    IF v.t = "list" /\ \A i \in 1..Len(v.l) : AddressBase(v.l[i]).ok
    THEN Ok(List(Reverse([i \in 1..Len(v.l) |-> AddressBase(v.l[i]).v])))
    ELSE Bad

\* List[AddressBase]: a list every element of which validates, order kept
AddressList(v) ==
    IF v.t = "list" /\ \A i \in 1..Len(v.l) : AddressBase(v.l[i]).ok
    THEN Ok(List([i \in 1..Len(v.l) |-> AddressBase(v.l[i]).v]))
    ELSE Bad

OptionalAddressList(v) == IF v.t = "null" THEN Ok(Null) ELSE AddressList(v)

Check(type, v) ==
    CASE type = "addresses"    -> AddressList(v)
      [] type = "optaddresses" -> OptionalAddressList(v)
      [] OTHER                 -> Scalar(type, v)

(***************************************************************************)
(* Model classes: the declared fields with type, requiredness and default. *)
(***************************************************************************)
OwnerBase ==
    [first_name    |-> [type |-> "str",       required |-> TRUE,  default |-> Null],
     last_name     |-> [type |-> "str",       required |-> TRUE,  default |-> Null],
     email         |-> [type |-> "email",     required |-> TRUE,  default |-> Null],
     phone         |-> [type |-> "optstr",    required |-> FALSE, default |-> Null],
     government_id |-> [type |-> "optstr",    required |-> FALSE, default |-> Null],
     addresses     |-> [type |-> "addresses", required |-> FALSE, default |-> List(<<>>)]]

OwnerCreate == OwnerBase

\* (variant) email declared Optional[str]: any text passes
OwnerUpdatePlainEmail ==
    [first_name    |-> [type |-> "optstr",       required |-> FALSE, default |-> Null],
     last_name     |-> [type |-> "optstr",       required |-> FALSE, default |-> Null],
     email         |-> [type |-> "optstr",       required |-> FALSE, default |-> Null],
     phone         |-> [type |-> "optstr",       required |-> FALSE, default |-> Null],
     government_id |-> [type |-> "optstr",       required |-> FALSE, default |-> Null],
     addresses     |-> [type |-> "optaddresses", required |-> FALSE, default |-> Null]]

OwnerUpdate ==
    [first_name    |-> [type |-> "optstr",       required |-> FALSE, default |-> Null],
     last_name     |-> [type |-> "optstr",       required |-> FALSE, default |-> Null],
     email         |-> [type |-> "optemail",     required |-> FALSE, default |-> Null],
     phone         |-> [type |-> "optstr",       required |-> FALSE, default |-> Null],
     government_id |-> [type |-> "optstr",       required |-> FALSE, default |-> Null],
     addresses     |-> [type |-> "optaddresses", required |-> FALSE, default |-> Null]]

PetBase ==
    [name       |-> [type |-> "str",     required |-> TRUE,  default |-> Null],
     species    |-> [type |-> "str",     required |-> TRUE,  default |-> Null],
     breed      |-> [type |-> "optstr",  required |-> FALSE, default |-> Null],
     birth_date |-> [type |-> "optdate", required |-> FALSE, default |-> Null],
     color      |-> [type |-> "optstr",  required |-> FALSE, default |-> Null]]

\* (variant) owner_id declared Optional[UUID] = None
PetCreateOptionalOwner ==
    [k \in DOMAIN PetBase \cup {"owner_id"} |->
        IF k = "owner_id" THEN [type |-> "uuid", required |-> FALSE, default |-> Null]
        ELSE PetBase[k]]

PetCreate ==
    [k \in DOMAIN PetBase \cup {"owner_id"} |->
        IF k = "owner_id" THEN [type |-> "uuid", required |-> TRUE, default |-> Null]
        ELSE PetBase[k]]

PetUpdate ==
    [name       |-> [type |-> "optstr",  required |-> FALSE, default |-> Null],
     species    |-> [type |-> "optstr",  required |-> FALSE, default |-> Null],
     breed      |-> [type |-> "optstr",  required |-> FALSE, default |-> Null],
     birth_date |-> [type |-> "optdate", required |-> FALSE, default |-> Null],
     color      |-> [type |-> "optstr",  required |-> FALSE, default |-> Null]]

(***************************************************************************)
(* BaseModel validation of a payload p against a class: keys the class     *)
(* does not declare are ignored; a declared key that is missing takes its  *)
(* default or, if required, fails the whole payload.  The instance keeps   *)
(* the set of keys that were actually supplied (model_fields_set).         *)
(***************************************************************************)
FieldOf(schema, p, k) ==
    IF k \in DOMAIN p THEN Check(schema[k].type, p[k])
    ELSE IF schema[k].required THEN Bad
    ELSE Ok(schema[k].default)

\* (variant) an omitted key counts as supplied with its default
ValidateAllSet(schema, p) ==
    [ok     |-> \A k \in DOMAIN schema : FieldOf(schema, p, k).ok,
     fields |-> [k \in DOMAIN schema |-> FieldOf(schema, p, k).v],
     set    |-> DOMAIN schema]

\* (variant) extra="allow": keys the class does not declare are kept
ValidateAllowExtra(schema, p) ==
    [ok     |-> \A k \in DOMAIN schema : FieldOf(schema, p, k).ok,
     fields |-> [k \in DOMAIN schema \cup DOMAIN p |->
                    IF k \in DOMAIN schema THEN FieldOf(schema, p, k).v ELSE p[k]],
     set    |-> DOMAIN p]

Validate(schema, p) ==
    [ok     |-> \A k \in DOMAIN schema : FieldOf(schema, p, k).ok,
     fields |-> [k \in DOMAIN schema |-> FieldOf(schema, p, k).v],
     set    |-> DOMAIN p \cap DOMAIN schema]

\* model_dump(): every declared field;  model_dump(exclude_unset=True): the supplied ones
ModelDump(m) == m.fields

ModelDumpSet(m) == Restrict(m.fields, m.set)

(***************************************************************************)
(* Read records.  OwnerRead / PetRead validate the base fields and fill    *)
(* id, created_at and updated_at, each from its own default factory, in    *)
(* declaration order, unless the data carries the key.  u is what uuid4()  *)
(* returns, t1 and t2 what the two successive datetime.utcnow() calls      *)
(* return.                                                                 *)
(***************************************************************************)
OwnerReadFields == DOMAIN OwnerBase \cup {"id", "created_at", "updated_at"}

\* (variant) created_at taken from the local clock, one step ahead of UTC
OwnerReadLocalTime(data, u, t1, t2) ==
    [k \in OwnerReadFields |->
        CASE k \in DOMAIN data /\ k \in DOMAIN OwnerBase -> Check(OwnerBase[k].type, data[k]).v
          [] k \in DOMAIN data /\ k \notin DOMAIN OwnerBase -> data[k]
          [] k = "id" -> Uuid(u)
          [] k = "created_at" -> Datetime(t1 + 1)
          [] k = "updated_at" -> Datetime(t2)
          [] OTHER -> OwnerBase[k].default]

OwnerRead(data, u, t1, t2) ==
    [k \in OwnerReadFields |->
        CASE k \in DOMAIN data /\ k \in DOMAIN OwnerBase -> Check(OwnerBase[k].type, data[k]).v
          [] k \in DOMAIN data /\ k \notin DOMAIN OwnerBase -> data[k]
          [] k = "id" -> Uuid(u)
          [] k = "created_at" -> Datetime(t1)
          [] k = "updated_at" -> Datetime(t2)
          [] OTHER -> OwnerBase[k].default]

PetReadFields == DOMAIN PetBase \cup {"id", "owner", "created_at", "updated_at"}

PetRead(data, u, t1, t2) ==
    [k \in PetReadFields |->
        CASE k \in DOMAIN data /\ k \in DOMAIN PetBase -> Check(PetBase[k].type, data[k]).v
          [] k \in DOMAIN data /\ k \notin DOMAIN PetBase -> data[k]
          [] k = "id" -> Uuid(u)
          [] k = "owner" -> Null
          [] k = "created_at" -> Datetime(t1)
          [] k = "updated_at" -> Datetime(t2)
          [] OTHER -> PetBase[k].default]

\* (variant) default=uuid4(): evaluated once, so every record gets the first id
Uuid4Shared == IF issued = 0 THEN issued + 1 ELSE issued

\* uuid4(): an identifier never issued before
Uuid4 == issued + 1

\* datetime.utcnow(): the clock has advanced by d since it was last read
Utcnow(t, d) == t + d

ClockSteps == {0, 1}

(***************************************************************************)
(* Client inputs.                                                          *)
(***************************************************************************)
Ada == Str(<<"Ada">>)
Ann == Str(<<"Ann">>)
Lovelace == Str(<<"Lovelace">>)
Perkins == Str(<<"Perkins">>)
AdaEmail == Str(<<"ada", "@", "example", ".", "com">>)
AnnEmail == Str(<<"ann.perkins", "@", "EXAMPLE", ".", "COM">>)
NotAnEmail == Str(<<"not-an-email">>)
NoDotEmail == Str(<<"ada", "@", "example">>)
OldPhone == Str(<<"+1-317-555-0123">>)
Phone == Str(<<"+1-555-0000">>)
GovId == Str(<<"NY-123">>)

AddrA ==
    [id |-> Uuid(101), street |-> Str(<<"123 Main St">>), city |-> Str(<<"London">>),
     state |-> Null, postal_code |-> Str(<<"SW1A 1AA">>), country |-> Str(<<"UK">>)]

\* the same kind of address with the optional state left out
AddrB ==
    [id |-> Uuid(102), street |-> Str(<<"10 Downing St">>), city |-> Str(<<"London">>),
     postal_code |-> Str(<<"SW1A 2AA">>), country |-> Str(<<"UK">>)]

AddrNoCity ==
    [id |-> Uuid(103), street |-> Str(<<"742 Evergreen Terrace">>),
     postal_code |-> Str(<<"62704">>), country |-> Str(<<"USA">>)]

NoKeys == [k \in {} |-> Null]

Without(p, k) == Restrict(p, DOMAIN p \ {k})

OwnerFull ==
    [first_name |-> Ada, last_name |-> Lovelace, email |-> AdaEmail, phone |-> OldPhone,
     government_id |-> Null, addresses |-> List(<<>>)]

\* Create payloads: the full payload, the full payload less one key, and the
\* full payload with another email or address list
OwnerCreatePayloads ==
    {OwnerFull}
    \cup {Without(OwnerFull, k) : k \in DOMAIN OwnerFull}
    \cup {[OwnerFull EXCEPT !.email = e] : e \in {NotAnEmail, NoDotEmail, Null}}
    \cup {Without([OwnerFull EXCEPT !.email = NotAnEmail], "phone")}
    \cup {[OwnerFull EXCEPT !.addresses = List(<<AddrA, AddrNoCity>>)]}

OwnerUpdatePayloads ==
    {NoKeys,
     [phone |-> Phone],
     [phone |-> Null],
     [first_name |-> Ann, last_name |-> Perkins],
     [first_name |-> Null],
     [email |-> AnnEmail, government_id |-> GovId],
     [email |-> NotAnEmail, phone |-> Phone],
     [email |-> IntVal(42)],
     [addresses |-> List(<<AddrA>>)],
     [addresses |-> List(<<AddrB>>)],
     [addresses |-> List(<<AddrB, AddrA>>)],
     [addresses |-> List(<<AddrA, AddrNoCity>>), first_name |-> Ann],
     [id |-> Uuid(999), created_at |-> Datetime(0), phone |-> Phone]}

Buddy == Str(<<"Buddy">>)
Max == Str(<<"Max">>)
Dog == Str(<<"Dog">>)
Cat == Str(<<"Cat">>)
Labrador == Str(<<"Labrador">>)
Black == Str(<<"Black">>)

PetFull ==
    [name |-> Buddy, species |-> Dog, breed |-> Null,
     birth_date |-> Str(<<"2020", "-", "05", "-", "10">>), color |-> Null,
     owner_id |-> Uuid(1)]

PetCreatePayloads ==
    {PetFull}
    \cup {Without(PetFull, k) : k \in DOMAIN PetFull}
    \cup {[PetFull EXCEPT !.birth_date = Str(<<"yesterday">>)],
          [PetFull EXCEPT !.owner_id = Str(<<"nobody">>)],
          [PetFull EXCEPT !.name = Null]}

PetUpdatePayloads ==
    {[name |-> Max],
     [name |-> Null],
     [species |-> Cat, breed |-> Labrador, color |-> Black,
      birth_date |-> Date(<<"2019", "12", "25">>)],
     [birth_date |-> Str(<<"yesterday">>), name |-> Max],
     [species |-> IntVal(7)],
     [id |-> Uuid(999), owner_id |-> Uuid(2), name |-> Max]}

(***************************************************************************)
(* State.                                                                  *)
(*   owners, pets  the stored Read records, by the number of their id      *)
(*   life          the lifecycle state of every id issued so far           *)
(*   issued        how many ids uuid4() has returned                       *)
(*   now           the latest reading of the clock                         *)
(*   ops           operations handled so far                               *)
(*   last          the operation just handled: its payload, its outcome    *)
(*                 and, for an update, the record as it was before         *)
(***************************************************************************)
Outcome(op, id, p, res, was) ==
    [op |-> op, id |-> id, payload |-> p, result |-> res, was |-> was]

Init ==
    /\ owners = NoKeys
    /\ pets = NoKeys
    /\ life = NoKeys
    /\ issued = 0
    /\ now = 0
    /\ ops = 0
    /\ last = Outcome("none", 0, NoKeys, "none", NoKeys)

Put(store, id, rec) == [i \in DOMAIN store \cup {id} |-> IF i = id THEN rec ELSE store[i]]

\* create: validate the Create payload, build the Read record from its dump;
\* the clock may advance before each of the two readings the record takes
CreateOwner(p) ==
    LET m == Validate(OwnerCreate, p)
    IN  /\ ops < MaxOps
        /\ ops' = ops + 1
        /\ UNCHANGED pets
        /\ IF m.ok
           THEN \E d1, d2 \in ClockSteps :
                  LET t1 == Utcnow(now, d1)
                      t2 == Utcnow(t1, d2)
                  IN  /\ owners' = Put(owners, Uuid4, OwnerRead(ModelDump(m), Uuid4, t1, t2))
                      /\ life' = Put(life, Uuid4, "Created")
                      /\ issued' = Uuid4
                      /\ now' = t2
                      /\ last' = Outcome("create_owner", Uuid4, p, "ok", NoKeys)
           ELSE /\ last' = Outcome("create_owner", 0, p, "ValidationError", NoKeys)
                /\ UNCHANGED <<owners, life, issued, now>>

CreatePet(p) ==
    LET m == Validate(PetCreate, p)
    IN  /\ ops < MaxOps
        /\ ops' = ops + 1
        /\ UNCHANGED owners
        /\ IF m.ok
           THEN \E d1, d2 \in ClockSteps :
                  LET t1 == Utcnow(now, d1)
                      t2 == Utcnow(t1, d2)
                  IN  /\ pets' = Put(pets, Uuid4, PetRead(ModelDump(m), Uuid4, t1, t2))
                      /\ life' = Put(life, Uuid4, "Created")
                      /\ issued' = Uuid4
                      /\ now' = t2
                      /\ last' = Outcome("create_pet", Uuid4, p, "ok", NoKeys)
           ELSE /\ last' = Outcome("create_pet", 0, p, "ValidationError", NoKeys)
                /\ UNCHANGED <<pets, life, issued, now>>

\* merge: a supplied field overwrites, an omitted one is kept; updated_at is set to t
Merge(stored, m, t) ==
    [k \in DOMAIN stored |->
        IF k = "updated_at" THEN Datetime(t)
        ELSE IF k \in DOMAIN ModelDumpSet(m) THEN ModelDumpSet(m)[k]
        ELSE stored[k]]

\* update: validate the Update payload, look the record up, merge, stamp updated_at
UpdateOwner(id, p) ==
    LET m == Validate(OwnerUpdate, p)
    IN  /\ ops < MaxOps
        /\ ops' = ops + 1
        /\ UNCHANGED <<pets, issued>>
        /\ CASE ~m.ok ->
                  /\ last' = Outcome("update_owner", id, p, "ValidationError", NoKeys)
                  /\ UNCHANGED <<owners, life, now>>
             [] m.ok /\ id \notin DOMAIN owners ->
                  /\ last' = Outcome("update_owner", id, p, "NotFound", NoKeys)
                  /\ UNCHANGED <<owners, life, now>>
             [] OTHER ->
                  \E d \in ClockSteps :
                      /\ owners' = [owners EXCEPT ![id] = Merge(@, m, Utcnow(now, d))]
                      /\ life' = [life EXCEPT ![id] = "Updated"]
                      /\ now' = Utcnow(now, d)
                      /\ last' = Outcome("update_owner", id, p, "ok", owners[id])

UpdatePet(id, p) ==
    LET m == Validate(PetUpdate, p)
    IN  /\ ops < MaxOps
        /\ ops' = ops + 1
        /\ UNCHANGED <<owners, issued>>
        /\ CASE ~m.ok ->
                  /\ last' = Outcome("update_pet", id, p, "ValidationError", NoKeys)
                  /\ UNCHANGED <<pets, life, now>>
             [] m.ok /\ id \notin DOMAIN pets ->
                  /\ last' = Outcome("update_pet", id, p, "NotFound", NoKeys)
                  /\ UNCHANGED <<pets, life, now>>
             [] OTHER ->
                  \E d \in ClockSteps :
                      /\ pets' = [pets EXCEPT ![id] = Merge(@, m, Utcnow(now, d))]
                      /\ life' = [life EXCEPT ![id] = "Updated"]
                      /\ now' = Utcnow(now, d)
                      /\ last' = Outcome("update_pet", id, p, "ok", pets[id])

\* delete: the record leaves the store for good
Delete(id) ==
    /\ ops < MaxOps
    /\ id \in DOMAIN owners \cup DOMAIN pets
    /\ ops' = ops + 1
    /\ owners' = Restrict(owners, DOMAIN owners \ {id})
    /\ pets' = Restrict(pets, DOMAIN pets \ {id})
    /\ life' = [life EXCEPT ![id] = "Deleted"]
    /\ last' = Outcome("delete", id, NoKeys, "ok", NoKeys)
    /\ UNCHANGED <<issued, now>>

Next ==
    \/ \E p \in OwnerCreatePayloads : CreateOwner(p)
    \/ \E p \in PetCreatePayloads : CreatePet(p)
    \/ \E id \in 1..issued, p \in OwnerUpdatePayloads : UpdateOwner(id, p)
    \/ \E id \in 1..issued, p \in PetUpdatePayloads : UpdatePet(id, p)
    \/ \E id \in 1..issued : Delete(id)

Spec == Init /\ [][Next]_vars

(***************************************************************************)
(* Validation on its own: an Owner payload is drawn from every combination *)
(* of keys and values, then validated as a Create or as an Update payload. *)
(***************************************************************************)
OwnerValues(k) ==
    CASE k = "first_name"    -> {Ada, Null}
      [] k = "last_name"     -> {Lovelace}
      [] k = "email"         -> {AdaEmail, AnnEmail, NotAnEmail, NoDotEmail, Null, IntVal(42),
                                 Str(<<>>),
                                 Str(<<"@", "example", ".", "com">>),
                                 Str(<<"ada", "@">>),
                                 Str(<<"ada", "@", "@", "example", ".", "com">>),
                                 Str(<<"ada", ".", ".", "l", "@", "example", ".", "com">>),
                                 Str(<<"ada", "@", "example", ".">>),
                                 Str(<<"ada", ".", "l", "@", "example", ".", "com">>)}
      [] k = "phone"         -> {Phone, IntVal(5550000)}
      [] k = "government_id" -> {GovId}
      [] k = "addresses"     -> {List(<<AddrA>>), List(<<AddrA, AddrNoCity>>)}

With(p, k, v) == [x \in DOMAIN p \cup {k} |-> IF x = k THEN v ELSE p[x]]

RECURSIVE OwnerPayloads(_)
OwnerPayloads(keys) ==
    IF keys = {} THEN {NoKeys}
    ELSE LET k == CHOOSE x \in keys : TRUE
             rest == OwnerPayloads(keys \ {k})
         IN  rest \cup {With(q[1], k, q[2]) : q \in rest \X OwnerValues(k)}

InitValidate ==
    /\ owners = NoKeys
    /\ pets = NoKeys
    /\ life = NoKeys
    /\ issued = 0
    /\ now = 0
    /\ ops = 0
    /\ \E op \in {"validate_owner_create", "validate_owner_update"},
          p \in OwnerPayloads(DOMAIN OwnerBase) :
            last = Outcome(op, 0, p, "pending", NoKeys)

Verdict(m) == IF m.ok THEN "ok" ELSE "ValidationError"

ValidateOwnerCreate ==
    /\ last.op = "validate_owner_create"
    /\ last.result = "pending"
    /\ last' = [last EXCEPT !.result = Verdict(Validate(OwnerCreate, last.payload))]
    /\ UNCHANGED <<owners, pets, life, issued, now, ops>>

ValidateOwnerUpdate ==
    /\ last.op = "validate_owner_update"
    /\ last.result = "pending"
    /\ last' = [last EXCEPT !.result = Verdict(Validate(OwnerUpdate, last.payload))]
    /\ UNCHANGED <<owners, pets, life, issued, now, ops>>

NextValidate == ValidateOwnerCreate \/ ValidateOwnerUpdate

SpecValidate == InitValidate /\ [][NextValidate]_vars

(***************************************************************************)
(* Properties.                                                             *)
(***************************************************************************)
Created(op) == op \in {"create_owner", "create_pet"}

Updated(op) == op \in {"update_owner", "update_pet"}

\* the record the last operation returned
Returned == IF last.op \in {"create_owner", "update_owner"} THEN owners[last.id] ELSE pets[last.id]

\* C1: the Read record a successful create returns has a non-null id and its
\* created_at equals its updated_at.
C1_CreateStampsEqual ==
    (Created(last.op) /\ last.result = "ok") =>
        /\ Returned.id.t = "uuid"
        /\ Returned.created_at = Returned.updated_at

\* a create during which the clock advanced between the two utcnow() calls
C1_ClockAdvanced ==
    /\ last.op = "create_owner" /\ last.result = "ok"
    /\ Returned.id = Uuid(last.id)
    /\ Returned.created_at.n < Returned.updated_at.n

\* the fields of an Update class that payload p leaves as stored / overwrites
Kept(schema, p) == DOMAIN schema \ DOMAIN p

Sent(schema, p) == DOMAIN schema \cap DOMAIN p

MergedAs(schema, before, after, p) ==
    /\ \A k \in Kept(schema, p) : after[k] = before[k]
    /\ \A k \in Sent(schema, p) :
          /\ after[k] = Check(schema[k].type, p[k]).v
          /\ p[k] = Null => after[k] = Null

\* C2: after a successful update every field omitted from the payload holds the
\* value it had, and every field present in the payload holds the (validated)
\* value sent, a null included.
C2_UpdateMerge ==
    [][/\ (last'.op = "update_owner" /\ last'.result = "ok") =>
            MergedAs(OwnerUpdate, owners[last'.id], owners'[last'.id], last'.payload)
       /\ (last'.op = "update_pet" /\ last'.result = "ok") =>
            MergedAs(PetUpdate, pets[last'.id], pets'[last'.id], last'.payload)]_vars

\* an update sent phone: null and nothing else: the phone is cleared, the rest kept
C2_Witness ==
    /\ last.op = "update_owner" /\ last.result = "ok"
    /\ last.payload = [phone |-> Null]
    /\ last.was.phone = OldPhone
    /\ Returned.phone = Null
    /\ Returned.first_name = Ada /\ Returned.email = AdaEmail

\* the ids of a list of addresses, in order
AddressIds(xs) == [i \in 1..Len(xs) |-> xs[i].id.n]

\* C3: an update that carries an addresses list leaves exactly that list, in the
\* order supplied, whatever the stored list was.
C3_AddressesReplaced ==
    [][(/\ last'.op = "update_owner" /\ last'.result = "ok"
        /\ "addresses" \in DOMAIN last'.payload
        /\ last'.payload.addresses.t = "list") =>
            LET sent == last'.payload.addresses.l
                got == owners'[last'.id].addresses.l
            IN  /\ AddressIds(got) = AddressIds(sent)
                /\ \A i \in 1..Len(sent) : \A k \in DOMAIN sent[i] : got[i][k] = sent[i][k]]_vars

\* [A] was stored, [B] was sent, [B] is stored
C3_Witness ==
    /\ last.op = "update_owner" /\ last.result = "ok"
    /\ "addresses" \in DOMAIN last.payload
    /\ AddressIds(last.was.addresses.l) = <<101>>
    /\ AddressIds(last.payload.addresses.l) = <<102>>
    /\ AddressIds(Returned.addresses.l) = <<102>>

\* [A] was stored, [B, A] was sent, [B, A] is stored
C3_WitnessOrder ==
    /\ last.op = "update_owner" /\ last.result = "ok"
    /\ "addresses" \in DOMAIN last.payload
    /\ AddressIds(last.was.addresses.l) = <<101>>
    /\ AddressIds(last.payload.addresses.l) = <<102, 101>>
    /\ AddressIds(Returned.addresses.l) = <<102, 101>>

MalformedEmail(p) ==
    /\ "email" \in DOMAIN p
    /\ p.email.t = "str"
    /\ ~WellFormedEmail(p.email.s)

\* C4: an Owner Create or Update payload whose email is text that is not a
\* well-formed address fails validation, whatever its other fields.
C4_MalformedEmailRejected ==
    (last.result # "pending" /\ MalformedEmail(last.payload)) => last.result = "ValidationError"

\* an Update payload, valid but for the email, was rejected
C4_Witness ==
    /\ last.op = "validate_owner_update"
    /\ last.result = "ValidationError"
    /\ last.payload = [email |-> NoDotEmail, phone |-> Phone]

C4_WitnessCreate ==
    /\ last.op = "validate_owner_create"
    /\ last.result = "ValidationError"
    /\ last.payload = [OwnerFull EXCEPT !.email = NotAnEmail, !.phone = Phone,
                                        !.government_id = GovId, !.addresses = List(<<AddrA>>)]

StoreUnchanged == owners' = owners /\ pets' = pets /\ life' = life /\ issued' = issued

OmitsRequired(op, p) ==
    \/ op = "create_owner" /\ {"first_name", "last_name", "email"} \ DOMAIN p # {}
    \/ op = "create_pet" /\ {"name", "species", "owner_id"} \ DOMAIN p # {}

\* C5: a Create payload that omits a required field fails validation and leaves
\* the stored records as they were.
C5_MissingRequiredRejected ==
    [][(Created(last'.op) /\ OmitsRequired(last'.op, last'.payload)) =>
            (last'.result = "ValidationError" /\ StoreUnchanged)]_vars

\* a Pet Create without owner_id was rejected while an Owner was stored
C5_Witness ==
    /\ last.op = "create_pet"
    /\ last.payload = Without(PetFull, "owner_id")
    /\ last.result = "ValidationError"
    /\ DOMAIN owners # {} /\ DOMAIN pets = {}

\* a value no field of an Update class accepts, or text that is no email or no date
InvalidField(k, v) ==
    \/ v.t = "int"
    \/ k = "email" /\ v.t = "str" /\ ~WellFormedEmail(v.s)
    \/ k = "birth_date" /\ v.t = "str" /\ ~IsoDate(v.s)
    \/ k = "addresses" /\ v.t = "list" /\ \E i \in 1..Len(v.l) : "city" \notin DOMAIN v.l[i]

HasInvalidField(schema, p) == \E k \in Sent(schema, p) : InvalidField(k, p[k])

\* C6: an Update payload with an invalid field is rejected in full: the stored
\* records, updated_at included, are as they were.
C6_InvalidUpdateRejected ==
    [][/\ (last'.op = "update_owner" /\ HasInvalidField(OwnerUpdate, last'.payload)) =>
            (last'.result = "ValidationError" /\ StoreUnchanged)
       /\ (last'.op = "update_pet" /\ HasInvalidField(PetUpdate, last'.payload)) =>
            (last'.result = "ValidationError" /\ StoreUnchanged)]_vars

\* a valid phone came with a malformed email: the stored phone is still the old one
C6_Witness ==
    /\ last.op = "update_owner"
    /\ last.payload = [email |-> NotAnEmail, phone |-> Phone]
    /\ last.result = "ValidationError"
    /\ last.id \in DOMAIN owners
    /\ owners[last.id].phone = OldPhone
    /\ owners[last.id].updated_at.n <= now

\* C7: a stored record keeps the id and the created_at it was created with.
C7_IdAndCreatedAtKept ==
    [][/\ \A i \in DOMAIN owners \cap DOMAIN owners' :
            /\ owners'[i].id = owners[i].id
            /\ owners'[i].created_at = owners[i].created_at
            /\ owners'[i].id = Uuid(i)
       /\ \A i \in DOMAIN pets \cap DOMAIN pets' :
            /\ pets'[i].id = pets[i].id
            /\ pets'[i].created_at = pets[i].created_at
            /\ pets'[i].id = Uuid(i)]_vars

\* a second successful update, whose payload carried an id and a created_at
C7_Witness ==
    /\ last.op = "update_owner" /\ last.result = "ok"
    /\ "id" \in DOMAIN last.payload /\ "created_at" \in DOMAIN last.payload
    /\ last.was.updated_at.n > last.was.created_at.n
    /\ Returned.id = Uuid(last.id)
    /\ Returned.id # last.payload.id
    /\ Returned.created_at = last.was.created_at
    /\ Returned.phone = Phone

C9_Lifecycle ==
    [][/\ \A i \in DOMAIN life :
            life[i] = "Deleted" =>
                /\ i \in DOMAIN life' /\ life'[i] = "Deleted"
                /\ i \notin DOMAIN owners' \cup DOMAIN pets'
       /\ \A i \in DOMAIN life' :
            (life'[i] = "Created" /\ (i \notin DOMAIN life \/ life[i] # "Created")) =>
                /\ i \notin DOMAIN life
                /\ Created(last'.op) /\ last'.result = "ok" /\ last'.id = i
                /\ ~OmitsRequired(last'.op, last'.payload)
                /\ ~MalformedEmail(last'.payload)
                /\ LET rec == IF last'.op = "create_owner" THEN owners'[i] ELSE pets'[i]
                   IN  rec.id = Uuid(i) /\ rec.created_at.t = "datetime"
                                        /\ rec.updated_at.t = "datetime"
       /\ \A i \in DOMAIN life' :
            (life'[i] = "Updated" /\ (i \notin DOMAIN life \/ life[i] # "Updated")) =>
                /\ i \in DOMAIN life /\ life[i] = "Created"
                /\ Updated(last'.op) /\ last'.result = "ok" /\ last'.id = i]_vars

\* an entity was deleted, and a later create made another one
C9_Witness ==
    /\ \E i \in DOMAIN life : life[i] = "Deleted"
    /\ Created(last.op) /\ last.result = "ok"
    /\ life[last.id] = "Created"

\* an update aimed at a deleted entity found nothing
C9_WitnessUpdate ==
    /\ Updated(last.op) /\ last.result = "NotFound"
    /\ last.id \in DOMAIN life /\ life[last.id] = "Deleted"

\* C10: every stored Owner has a non-null first_name, last_name and email, and
\* every stored Pet a non-null name and species.
C10_RequiredStayNonNull ==
    /\ \A i \in DOMAIN owners :
          owners[i].first_name.t = "str" /\ owners[i].last_name.t = "str"
                                         /\ owners[i].email.t = "str"
    /\ \A i \in DOMAIN pets : pets[i].name.t = "str" /\ pets[i].species.t = "str"

====
